---------------------------- MODULE Spec2Model ----------------------------
(***************************************************************************)
(* A model of vgmplay (src/src/main.c, first revision in the file): the    *)
(* bounds-checked stream cursor (struct vgm_buf with skip_bytes,           *)
(* get_uint8, get_uint16, get_uint32), the hardware output primitives      *)
(* (sn76489_off, pc_speaker_start, pc_speaker_stop), the command           *)
(* interpreter play_Tandy_sound, the waiter (set_delay_parameters,         *)
(* wait_44khz), calibrate_delay, parse_args and main.                      *)
(*                                                                         *)
(* The build is Open Watcom for the 8086 (Makefile: wcc -0), so `unsigned` *)
(* and `int` are 16 bits wide, uint32_t is 32 bits wide.                   *)
(***************************************************************************)
EXTENDS Integers, Sequences, FiniteSets, TLC

VARIABLES
    v,        \* struct vgm_buf: [buffer, size, pos]
    call,     \* cursor harness: the last cursor call, [fn, arg, pos] (pos before)
    ret,      \* cursor harness: the value the last cursor call returned
    rd,       \* the buffer indices (0-based) read by the last operation
    state,    \* interpreter: "Running", "Done", "ParseError", "Fault"
    command,  \* interpreter: the opcode dispatched by the last loop iteration
    period,   \* interpreter: AY-8910 channel A period (uint16_t)
    clock,    \* header->ay8910_clock
    port61,   \* the value held by I/O port 0x61 (bits 0-1 gate the speaker)
    out,      \* everything the program did to the hardware and the waiter, in order
    origin,   \* how the buffer was made: [kind, cmds, end, bytes]
    delay,    \* the waiter's statics: [adj_up, adj_dn, initial, step]
    nd,       \* the arguments of the last set_delay_parameters call: [n, d]
    wt,       \* wait_44khz: its locals and the calls it has returned from
    cal,      \* calibrate_delay: its locals and its position
    env,      \* what main is run with: [argv, file, ticks]
    pc        \* main: its position

\* What the interpreter and the cursor leave alone.
hostVars == <<delay, nd, wt, cal, env, pc>>

vars == <<v, call, ret, rd, state, command, period, clock, port61, out, origin,
          delay, nd, wt, cal, env, pc>>

---------------------------------------------------------------------------
(* Integer widths of the 16-bit build.  pos and size are uint32_t: size is  *)
(* below 0xffff (main rejects larger files) and a skip is below 0x10000,   *)
(* so no sum on them reaches 2^32 and they are kept as plain integers.     *)
(* A uint32_t value read from the stream is kept as its two 16-bit halves, *)
(* [lo, hi], value lo + 65536 * hi.                                        *)

W8 == 256
W16 == 65536

(* Bounds of the model. *)

MaxCursorLen == 5     \* longest buffer of the cursor harness
MaxRawLen == 4        \* longest buffer made of arbitrary bytes
MaxCmds == 2          \* most commands in a well-formed stream

Min(a, b) == IF a < b THEN a ELSE b

---------------------------------------------------------------------------
(* The stream cursor.  Each operator returns the cursor after the call    *)
(* (v), the value returned (val) and the buffer indices read (rd).        *)

\* v->buffer[i].  A read at i >= size would be of memory outside the
\* allocation; rd records every index read, so such a read is visible.
Mem(c, i) == IF i < Len(c.buffer) THEN c.buffer[i + 1] ELSE 0

U32(lo, hi) == [lo |-> lo, hi |-> hi]

\* skip_bytes without the clamp to size.
skip_bytes_NoClamp(c, bytes_to_skip) ==
    [v   |-> [c EXCEPT !.pos = c.pos + (bytes_to_skip % W16)],
     val |-> 0,
     rd  |-> {}]

\* skip_bytes(struct vgm_buf *v, unsigned bytes_to_skip): the parameter is
\* 16 bits wide.
skip_bytes(c, bytes_to_skip) ==
    LET n == bytes_to_skip % W16
        p == c.pos + n
    IN  [v   |-> [c EXCEPT !.pos = IF p > c.size THEN c.size ELSE p],
         val |-> 0,
         rd  |-> {}]

\* get_uint8 with the end test off by one (pos > size).
get_uint8_OffByOne(c) ==
    IF c.pos > c.size
       THEN [v |-> c, val |-> \H66, rd |-> {}]
       ELSE [v   |-> [c EXCEPT !.pos = c.pos + 1],
             val |-> Mem(c, c.pos),
             rd  |-> {c.pos}]

\* get_uint8 that steps over the end of the buffer.
get_uint8_AlwaysAdvance(c) ==
    [v   |-> [c EXCEPT !.pos = c.pos + 1],
     val |-> IF c.pos >= c.size THEN \H66 ELSE Mem(c, c.pos),
     rd  |-> IF c.pos >= c.size THEN {} ELSE {c.pos}]

get_uint8(c) ==
    IF c.pos >= c.size
       THEN [v |-> c, val |-> \H66, rd |-> {}]
       ELSE [v   |-> [c EXCEPT !.pos = c.pos + 1],
             val |-> Mem(c, c.pos),
             rd  |-> {c.pos}]

\* get_uint16 with the end test off by one (pos + 1 > size).
get_uint16_OffByOne(c) ==
    IF c.pos + 1 > c.size
       THEN [v |-> [c EXCEPT !.pos = c.size], val |-> 0, rd |-> {}]
       ELSE [v   |-> [c EXCEPT !.pos = c.pos + 2],
             val |-> Mem(c, c.pos) + W8 * Mem(c, c.pos + 1),
             rd  |-> {c.pos, c.pos + 1}]

get_uint16(c) ==
    IF c.pos + 2 > c.size
       THEN [v |-> [c EXCEPT !.pos = c.size], val |-> 0, rd |-> {}]
       ELSE [v   |-> [c EXCEPT !.pos = c.pos + 2],
             val |-> Mem(c, c.pos) + W8 * Mem(c, c.pos + 1),
             rd  |-> {c.pos, c.pos + 1}]

get_uint32(c) ==
    IF c.pos + 4 > c.size
       THEN [v |-> [c EXCEPT !.pos = c.size], val |-> U32(0, 0), rd |-> {}]
       ELSE [v   |-> [c EXCEPT !.pos = c.pos + 4],
             val |-> U32(Mem(c, c.pos) + W8 * Mem(c, c.pos + 1),
                         Mem(c, c.pos + 2) + W8 * Mem(c, c.pos + 3)),
             rd  |-> {c.pos, c.pos + 1, c.pos + 2, c.pos + 3}]

---------------------------------------------------------------------------
(* Buffers.  main builds the cursor as { buffer, size, 0 } with size the   *)
(* number of bytes loaded.                                                 *)

SeqsUpTo(S, n) == UNION {[1..k -> S] : k \in 0..n}

NewBuf(b) == [buffer |-> b, size |-> Len(b), pos |-> 0]

NoCall == [fn |-> "none", arg |-> 0, pos |-> 0]

---------------------------------------------------------------------------
(* Hardware output.  An entry of `out` is <<"outp", port, value>> for an    *)
(* I/O port write or <<"wait", samples>> for a call of wait_44khz.         *)

Outp(port, value) == <<"outp", port, value>>

Wait(samples) == <<"wait", samples>>

sn76489_off ==
    << Outp(\HC0, \H9F), Outp(\HC0, \HBF), Outp(\HC0, \HDF), Outp(\HC0, \HFF) >>

\* al = inp(0x61); outp(0x61, al & 0xfc)
pc_speaker_stop(al) ==
    [out |-> << Outp(\H61, al - (al % 4)) >>, port61 |-> al - (al % 4)]

(* An integer division by zero is undefined behaviour.  On the 8086 the    *)
(* DIV instruction raises interrupt 0: the process is aborted where it     *)
(* stands (trap), or a handler returns and the program goes on with an     *)
(* unspecified quotient (both uses keep only its low 16 bits).             *)
UBOutcomes ==
    { [trap |-> TRUE, q |-> 0], [trap |-> FALSE, q |-> 0],
      [trap |-> FALSE, q |-> W16 - 1] }

Defined == [trap |-> FALSE, q |-> 0]

UBFor(divisor) == IF divisor = 0 THEN UBOutcomes ELSE {Defined}

Div(a, b, ub) == IF b = 0 THEN ub ELSE [trap |-> FALSE, q |-> a \div b]

\* pc_speaker_start(unsigned freq): the argument is converted to 16 bits.
\* uint16_t period = 0xfffe & (0x1234dcUL / freq), then the timer is
\* programmed and bits 0-1 of port 0x61 are set.
pc_speaker_start(freq, al, ub) ==
    LET d     == Div(\H1234DC, freq % W16, ub)
        timer == (d.q % W16) - ((d.q % W16) % 2)
    IN  [trap   |-> d.trap,
         out    |-> << Outp(\H43, \HB6), Outp(\H42, timer % W8),
                       Outp(\H42, timer \div W8),
                       Outp(\H61, al - (al % 4) + 3) >>,
         port61 |-> al - (al % 4) + 3]

---------------------------------------------------------------------------
(* The command interpreter, play_Tandy_sound: one action per case of the  *)
(* switch, each a whole iteration of the while loop (and, for the          *)
(* iteration that leaves the loop, the code up to the return).             *)

\* uint8_t command = get_uint8(v)
Fetch == get_uint8(v)

Cmd == Fetch.val

\* SkipLen with 0x96 ... 0x9f taken for four-byte stream commands.
SkipLen_StreamRange(c) ==
    IF (c >= \H30 /\ c <= \H3F) \/ c = \H4F \/ c = \H94 THEN 1
    ELSE IF (c >= \H40 /\ c <= \H4E) \/ (c >= \H51 /\ c <= \H5F)
            \/ (c >= \HA1 /\ c <= \HBF) THEN 2
    ELSE IF (c >= \HC0 /\ c <= \HDF) \/ c = \HE1 THEN 3
    ELSE IF c = \HE0 \/ (c >= \HE2 /\ c <= \HFF) \/ c = \H90 \/ c = \H91
            \/ (c >= \H95 /\ c <= \H9F) THEN 4
    ELSE IF c = \H92 THEN 5
    ELSE IF c = \H93 THEN 10
    ELSE 0

\* SkipLen with 0xe1 taken for a four-byte command, as 0xe0 and 0xe2 are.
SkipLen_C352Four(c) ==
    IF (c >= \H30 /\ c <= \H3F) \/ c = \H4F \/ c = \H94 THEN 1
    ELSE IF (c >= \H40 /\ c <= \H4E) \/ (c >= \H51 /\ c <= \H5F)
            \/ (c >= \HA1 /\ c <= \HBF) THEN 2
    ELSE IF c >= \HC0 /\ c <= \HDF THEN 3
    ELSE IF (c >= \HE0 /\ c <= \HFF) \/ c = \H90 \/ c = \H91
            \/ c = \H95 THEN 4
    ELSE IF c = \H92 THEN 5
    ELSE IF c = \H93 THEN 10
    ELSE 0

\* The cases that print the command and skip a fixed number of bytes.
SkipLen(c) ==
    IF (c >= \H30 /\ c <= \H3F) \/ c = \H4F \/ c = \H94 THEN 1
    ELSE IF (c >= \H40 /\ c <= \H4E) \/ (c >= \H51 /\ c <= \H5F)
            \/ (c >= \HA1 /\ c <= \HBF) THEN 2
    ELSE IF (c >= \HC0 /\ c <= \HDF) \/ c = \HE1 THEN 3
    ELSE IF c = \HE0 \/ (c >= \HE2 /\ c <= \HFF) \/ c = \H90 \/ c = \H91
            \/ c = \H95 THEN 4
    ELSE IF c = \H92 THEN 5
    ELSE IF c = \H93 THEN 10
    ELSE 0

IsSkipCase(c) == SkipLen(c) # 0

IsWaitCase(c) == c \in {\H61, \H62, \H63} \/ (c >= \H70 /\ c <= \H7F)

IsYm2612Case(c) == c >= \H80 /\ c <= \H8F

IsDefaultCase(c) ==
    ~ ( IsSkipCase(c) \/ IsWaitCase(c) \/ IsYm2612Case(c)
        \/ c \in {\H50, \H66, \H67, \H68, \HA0} )

\* The code after the loop: sn76489_off(); pc_speaker_stop(); return.
ExitDone ==
    LET s == pc_speaker_stop(port61)
    IN  /\ state' = "Done"
        /\ out' = out \o sn76489_off \o s.out
        /\ port61' = s.port61

\* The label parse_error: sn76489_off(); return.
ExitParseError ==
    /\ state' = "ParseError"
    /\ out' = out \o sn76489_off
    /\ port61' = port61

\* case 0x30 ... 0x93: skip_bytes(v, n)
CmdSkip ==
    /\ state = "Running"
    /\ IsSkipCase(Cmd)
    /\ command' = Cmd
    /\ v' = skip_bytes(Fetch.v, SkipLen(Cmd)).v
    /\ rd' = Fetch.rd
    /\ UNCHANGED <<state, period, clock, port61, out, origin, call, ret,
                   hostVars>>

\* The tone write moved ahead of a wait issued just before it (the write
\* combined with the writes that precede the wait).
CmdSn76489Write_Late ==
    /\ state = "Running"
    /\ Cmd = \H50
    /\ LET d == get_uint8(Fetch.v)
       IN  /\ v' = d.v
           /\ rd' = Fetch.rd \cup d.rd
           /\ out' = IF out # <<>> /\ out[Len(out)][1] = "wait"
                        THEN SubSeq(out, 1, Len(out) - 1)
                             \o << Outp(\HC0, d.val), out[Len(out)] >>
                        ELSE Append(out, Outp(\HC0, d.val))
    /\ command' = Cmd
    /\ UNCHANGED <<state, period, clock, port61, origin, call, ret, hostVars>>

\* case 0x50: outp(0xc0, get_uint8(v))
CmdSn76489Write ==
    /\ state = "Running"
    /\ Cmd = \H50
    /\ LET d == get_uint8(Fetch.v)
       IN  /\ v' = d.v
           /\ rd' = Fetch.rd \cup d.rd
           /\ out' = Append(out, Outp(\HC0, d.val))
    /\ command' = Cmd
    /\ UNCHANGED <<state, period, clock, port61, origin, call, ret, hostVars>>

\* The short waits without the + 1.
CmdWait_NoPlusOne ==
    /\ state = "Running"
    /\ IsWaitCase(Cmd)
    /\ LET n == get_uint16(Fetch.v)
       IN  IF Cmd = \H61
              THEN /\ v' = n.v
                   /\ rd' = Fetch.rd \cup n.rd
                   /\ out' = Append(out, Wait(n.val))
              ELSE /\ v' = Fetch.v
                   /\ rd' = Fetch.rd
                   /\ out' = Append(out, Wait(IF Cmd = \H62 THEN 735
                                              ELSE IF Cmd = \H63 THEN 882
                                              ELSE Cmd % 16))
    /\ command' = Cmd
    /\ UNCHANGED <<state, period, clock, port61, origin, call, ret, hostVars>>

\* case 0x61, 0x62, 0x63, 0x70 ... 0x7f: wait_44khz(samples)
CmdWait ==
    /\ state = "Running"
    /\ IsWaitCase(Cmd)
    /\ LET n == get_uint16(Fetch.v)
       IN  IF Cmd = \H61
              THEN /\ v' = n.v
                   /\ rd' = Fetch.rd \cup n.rd
                   /\ out' = Append(out, Wait(n.val))
              ELSE /\ v' = Fetch.v
                   /\ rd' = Fetch.rd
                   /\ out' = Append(out, Wait(IF Cmd = \H62 THEN 735
                                              ELSE IF Cmd = \H63 THEN 882
                                              ELSE (Cmd % 16) + 1))
    /\ command' = Cmd
    /\ UNCHANGED <<state, period, clock, port61, origin, call, ret, hostVars>>

\* case 0x66: done = true, and the loop is left.
CmdEnd ==
    /\ state = "Running"
    /\ Cmd = \H66
    /\ command' = Cmd
    /\ v' = Fetch.v
    /\ rd' = Fetch.rd
    /\ ExitDone
    /\ UNCHANGED <<period, clock, origin, call, ret, hostVars>>

\* The conversion of a uint32_t argument to `unsigned`: its low 16 bits.
Unsigned(u32) == u32.lo

\* The data block with the type byte skipped before the marker is checked.
CmdDataBlock_TypeFirst ==
    /\ state = "Running"
    /\ Cmd = \H67
    /\ command' = Cmd
    /\ LET marker == get_uint8(Fetch.v)
           type   == skip_bytes(marker.v, 1)
           len    == get_uint32(type.v)
       IN  IF marker.val # \H66
              THEN /\ v' = type.v
                   /\ rd' = Fetch.rd \cup marker.rd
                   /\ ExitParseError
              ELSE /\ v' = skip_bytes(len.v, Unsigned(len.val)).v
                   /\ rd' = Fetch.rd \cup marker.rd \cup len.rd
                   /\ UNCHANGED <<state, out, port61>>
    /\ UNCHANGED <<period, clock, origin, call, ret, hostVars>>

\* case 0x67: data block.
CmdDataBlock ==
    /\ state = "Running"
    /\ Cmd = \H67
    /\ command' = Cmd
    /\ LET marker == get_uint8(Fetch.v)
           type   == skip_bytes(marker.v, 1)
           len    == get_uint32(type.v)
       IN  IF marker.val # \H66
              THEN /\ v' = marker.v
                   /\ rd' = Fetch.rd \cup marker.rd
                   /\ ExitParseError
              ELSE /\ v' = skip_bytes(len.v, Unsigned(len.val)).v
                   /\ rd' = Fetch.rd \cup marker.rd \cup len.rd
                   /\ UNCHANGED <<state, out, port61>>
    /\ UNCHANGED <<period, clock, origin, call, ret, hostVars>>

\* case 0x68: PCM RAM write.
CmdPcmRamWrite ==
    /\ state = "Running"
    /\ Cmd = \H68
    /\ command' = Cmd
    /\ LET marker == get_uint8(Fetch.v)
       IN  IF marker.val # \H66
              THEN /\ v' = marker.v
                   /\ rd' = Fetch.rd \cup marker.rd
                   /\ ExitParseError
              ELSE /\ v' = skip_bytes(marker.v, 13).v
                   /\ rd' = Fetch.rd \cup marker.rd
                   /\ UNCHANGED <<state, out, port61>>
    /\ UNCHANGED <<period, clock, origin, call, ret, hostVars>>

\* case 0x80 ... 0x8f: printed, nothing else.
CmdYm2612 ==
    /\ state = "Running"
    /\ IsYm2612Case(Cmd)
    /\ command' = Cmd
    /\ v' = Fetch.v
    /\ rd' = Fetch.rd
    /\ UNCHANGED <<state, period, clock, port61, out, origin, call, ret,
                   hostVars>>

\* Ay8910Period without the 0x0fff mask of the register-1 write.
Ay8910Period_NoMask(p, v1, v2) ==
    IF v1 = 0 THEN (p - (p % W8)) + v2
    ELSE IF v1 = 1 THEN ((p % W8) + ((v2 * W8) % W16)) % W16
    ELSE p

\* The period after an AY8910 write of value v2 to register v1.
Ay8910Period(p, v1, v2) ==
    IF v1 = 0 THEN (p - (p % W8)) + v2
    ELSE IF v1 = 1 THEN ((p % W8) + ((v2 * W8) % W16)) % 4096
    ELSE p

\* Whether the write calls pc_speaker_start (p is the period before it).
Ay8910Starts(p, v1, v2) ==
    v1 = 1 \/ (v1 = 7 /\ v2 % 2 # 0 /\ p # 0)

\* The AY8910 write with register 8 stopping the speaker whatever the value.
CmdAy8910_StopAlways ==
    /\ state = "Running"
    /\ Cmd = \HA0
    /\ command' = Cmd
    /\ LET r1  == get_uint8(Fetch.v)
           r2  == get_uint8(r1.v)
           v1  == r1.val
           v2  == r2.val
           np  == Ay8910Period(period, v1, v2)
           den == (16 * np) % W16
       IN  /\ v' = r2.v
           /\ rd' = Fetch.rd \cup r1.rd \cup r2.rd
           /\ period' = np
           /\ IF Ay8910Starts(period, v1, v2)
                 THEN \E ub1 \in UBFor(den) :
                        LET f == Div(clock, den, ub1)
                        IN  \E ub2 \in UBFor(IF f.trap THEN 1 ELSE f.q % W16) :
                              LET s == pc_speaker_start(f.q, port61, ub2)
                              IN  IF f.trap \/ s.trap
                                     THEN /\ state' = "Fault"
                                          /\ UNCHANGED <<out, port61>>
                                     ELSE /\ out' = out \o s.out
                                          /\ port61' = s.port61
                                          /\ UNCHANGED state
                 ELSE IF v1 = 8
                         THEN LET s == pc_speaker_stop(port61)
                              IN  /\ out' = out \o s.out
                                  /\ port61' = s.port61
                                  /\ UNCHANGED state
                         ELSE UNCHANGED <<state, out, port61>>
    /\ UNCHANGED <<clock, origin, call, ret, hostVars>>

\* case 0xa0: AY8910 write.
CmdAy8910 ==
    /\ state = "Running"
    /\ Cmd = \HA0
    /\ command' = Cmd
    /\ LET r1  == get_uint8(Fetch.v)
           r2  == get_uint8(r1.v)
           v1  == r1.val
           v2  == r2.val
           np  == Ay8910Period(period, v1, v2)
           den == (16 * np) % W16
       IN  /\ v' = r2.v
           /\ rd' = Fetch.rd \cup r1.rd \cup r2.rd
           /\ period' = np
           /\ IF Ay8910Starts(period, v1, v2)
                 THEN \E ub1 \in UBFor(den) :
                        LET f == Div(clock, den, ub1)
                        IN  \E ub2 \in UBFor(IF f.trap THEN 1 ELSE f.q % W16) :
                              LET s == pc_speaker_start(f.q, port61, ub2)
                              IN  IF f.trap \/ s.trap
                                     THEN /\ state' = "Fault"
                                          /\ UNCHANGED <<out, port61>>
                                     ELSE /\ out' = out \o s.out
                                          /\ port61' = s.port61
                                          /\ UNCHANGED state
                 ELSE IF v1 = 8 /\ v2 % 2 = 0
                         THEN LET s == pc_speaker_stop(port61)
                              IN  /\ out' = out \o s.out
                                  /\ port61' = s.port61
                                  /\ UNCHANGED state
                         ELSE UNCHANGED <<state, out, port61>>
    /\ UNCHANGED <<clock, origin, call, ret, hostVars>>

\* default: goto parse_error.
CmdDefault ==
    /\ state = "Running"
    /\ IsDefaultCase(Cmd)
    /\ command' = Cmd
    /\ v' = Fetch.v
    /\ rd' = Fetch.rd
    /\ ExitParseError
    /\ UNCHANGED <<period, clock, origin, call, ret, hostVars>>

play_Tandy_sound ==
    \/ CmdSkip
    \/ CmdSn76489Write
    \/ CmdWait
    \/ CmdEnd
    \/ CmdDataBlock
    \/ CmdPcmRamWrite
    \/ CmdYm2612
    \/ CmdAy8910
    \/ CmdDefault

---------------------------------------------------------------------------
(* The waiter: the statics adj_up, adj_dn, initial (uint16_t) and step     *)
(* (uint8_t), set_delay_parameters and wait_44khz.                         *)

\* Conversion of a 16-bit value to int16_t (two's complement).
ToInt16(x) == IF x % W16 >= W16 \div 2 THEN (x % W16) - W16 ELSE x % W16

\* Statics before any set_delay_parameters call (adj_dn = 0 is explicit, the
\* others are zero-initialised).
StaticDelay == [adj_up |-> 0, adj_dn |-> 0, initial |-> 0, step |-> 0]

NoND == [n |-> 0, d |-> 0]

\* set_delay_parameters(uint16_t n, uint16_t d): n % d and n / d divide by d
\* (ub: what a division by zero does); step keeps 8 bits of the quotient.
set_delay_parameters(n, d, ub) ==
    LET q  == Div(n % W16, d % W16, ub)
        up == IF d % W16 = 0 THEN ub.q ELSE (n % W16) % (d % W16)
        dn == ((d % W16) * 2) % W16
    IN  [trap |-> q.trap, adj_up |-> up, adj_dn |-> dn,
         step |-> q.q % W8, initial |-> (dn - up) % W16]

\* The statics a set_delay_parameters call leaves.
Statics(r) ==
    [adj_up |-> r.adj_up, adj_dn |-> r.adj_dn,
     initial |-> r.initial, step |-> r.step]

\* wait_44khz is not running; hist: [samples, iters] of each call returned.
\* extra: for each iteration of the running call, whether it took the extra
\* remain--.
WtIdle(hist) ==
    [active |-> FALSE, samples |-> 0, err |-> 0, remain |-> 0, iters |-> 0,
     extra |-> <<>>, hist |-> hist]

\* wait_44khz(samples): uint16_t err = initial; int16_t remain = samples;
WaitEnter(samples) ==
    [active |-> TRUE, samples |-> samples, err |-> delay.initial,
     remain |-> ToInt16(samples), iters |-> 0, extra |-> <<>>,
     hist |-> wt.hist]

\* The most iterations of one wait_44khz call that are followed.
MaxIters == 300

\* The iteration without err += adj_dn after the wrap.
WaitIter_NoRestore ==
    /\ wt.active
    /\ wt.remain > 0
    /\ wt.iters < MaxIters
    /\ LET old_err == wt.err
           err1    == (wt.err - ((2 * delay.adj_up) % W16)) % W16
           borrow  == err1 > old_err
           err2    == err1
           remain1 == IF borrow THEN wt.remain - 1 ELSE wt.remain
       IN  wt' = [wt EXCEPT !.err = err2,
                            !.remain = ToInt16(remain1 - delay.step),
                            !.iters = wt.iters + 1,
                            !.extra = Append(wt.extra, borrow)]
    /\ UNCHANGED <<v, call, ret, rd, state, command, period, clock, port61,
                   out, origin, delay, nd, cal, env, pc>>

\* One iteration of while (remain > 0).
WaitIter ==
    /\ wt.active
    /\ wt.remain > 0
    /\ wt.iters < MaxIters
    /\ LET old_err == wt.err
           err1    == (wt.err - ((2 * delay.adj_up) % W16)) % W16
           borrow  == err1 > old_err
           err2    == IF borrow THEN (err1 + delay.adj_dn) % W16 ELSE err1
           remain1 == IF borrow THEN wt.remain - 1 ELSE wt.remain
       IN  wt' = [wt EXCEPT !.err = err2,
                            !.remain = ToInt16(remain1 - delay.step),
                            !.iters = wt.iters + 1,
                            !.extra = Append(wt.extra, borrow)]
    /\ UNCHANGED <<v, call, ret, rd, state, command, period, clock, port61,
                   out, origin, delay, nd, cal, env, pc>>

\* The loop condition fails: wait_44khz returns.
WaitReturn ==
    /\ wt.active
    /\ wt.remain <= 0
    /\ wt' = WtIdle(Append(wt.hist, [samples |-> wt.samples,
                                     iters |-> wt.iters]))
    /\ UNCHANGED <<v, call, ret, rd, state, command, period, clock, port61,
                   out, origin, delay, nd, cal, env, pc>>

\* calibrate_delay is not running.  waits counts its wait_44khz calls.
CalIdle ==
    [at |-> "idle", n |-> 0, d |-> 0, old_d |-> 0, lo |-> 0, hi |-> 0,
     next_factor |-> 0, i |-> 0, waits |-> 0]

\* main has not opened a file / has not measured anything.
NoFile ==
    [io |-> "none", ident |-> <<>>, version |-> 0, ay8910_clock |-> 0,
     size |-> 0, stream |-> <<>>]

NoTicks == [any |-> FALSE, num |-> 0, den |-> 0]

\* main is not part of the run: the interpreter, the cursor or the waiter is
\* exercised on its own.
NoEnv == [argv |-> <<>>, file |-> NoFile, ticks |-> NoTicks]

HostIdle ==
    /\ delay = StaticDelay
    /\ nd = NoND
    /\ wt = WtIdle(<<>>)
    /\ cal = CalIdle
    /\ env = NoEnv
    /\ pc = "none"

---------------------------------------------------------------------------
(* The buffers the interpreter is run on.  Three families:                 *)
(*   raw     every byte string over RawBytes of at most MaxRawLen bytes;   *)
(*   probe   every opcode 0x00..0xff followed by TailLen equal bytes;      *)
(*   stream  a well-formed command stream (at most MaxCmds commands of     *)
(*           StreamCmds, then the end opcode 0x66, or then a data block    *)
(*           whose declared length goes beyond what is loaded), cut at     *)
(*           any byte position (cut = its whole length: not cut).          *)

RawBytes == {\H00, \H01, \H07, \H08, \H66, \H67, \H68, \HA0}

TailLen == 12

ProbeTailBytes == {\H01, \H66}

Rep(b, n) == [i \in 1..n |-> b]

StreamCmds ==
    { <<\H50, \H9F>>, <<\H50, \H66>>,
      <<\H61, \H00, \H02>>, <<\H61, \HFF, \HFF>>, <<\H62>>, <<\H7F>>,
      <<\H4F, \H00>>, <<\H93>> \o Rep(\H00, 10), <<\H80>>,
      <<\HA0, \H00, \H10>>, <<\HA0, \H01, \H01>>, <<\HA0, \H01, \H00>>,
      <<\HA0, \H07, \H01>>, <<\HA0, \H08, \H00>>,
      <<\H67, \H66, \H00, \H02, \H00, \H00, \H00, \H00, \H00>>,
      <<\H68, \H66>> \o Rep(\H00, 13) }

\* The end of a well-formed stream: the end opcode, or the start of a data
\* block that declares 0x10000 bytes of data (its first data bytes shown).
StreamEnds ==
    { <<\H66>>,
      <<\H67, \H66, \H00, \H00, \H00, \H01, \H00, \H00>>,
      <<\H67, \H66, \H00, \H00, \H00, \H01, \H00, \H66, \H00>> }

RECURSIVE Flatten(_)
Flatten(cs) == IF cs = <<>> THEN <<>> ELSE Head(cs) \o Flatten(Tail(cs))

Clocks == {0, 1789772}

Port61Init == \H30

FromRaw ==
    \E b \in SeqsUpTo(RawBytes, MaxRawLen) :
        origin = [kind |-> "raw", cmds |-> <<>>, end |-> <<>>, bytes |-> b]

FromProbe ==
    \E op \in 0..255, t \in ProbeTailBytes :
        origin = [kind |-> "probe", cmds |-> <<>>, end |-> <<>>,
                  bytes |-> <<op>> \o Rep(t, TailLen)]

FromStream ==
    \E cs \in SeqsUpTo(StreamCmds, MaxCmds), e \in StreamEnds :
        \E k \in 0..Len(Flatten(cs) \o e) :
            origin = [kind |-> "stream", cmds |-> cs, end |-> e,
                      bytes |-> SubSeq(Flatten(cs) \o e, 1, k)]

\* The whole stream an origin of kind "stream" was cut from (as far as shown).
Whole(o) == Flatten(o.cmds) \o o.end

IsCut(o) == Len(o.bytes) < Len(Whole(o))

Init ==
    /\ FromRaw \/ FromProbe \/ FromStream
    /\ v = NewBuf(origin.bytes)
    /\ clock \in Clocks
    /\ port61 = Port61Init
    /\ state = "Running"
    /\ command = 0
    /\ period = 0
    /\ out = <<>>
    /\ rd = {}
    /\ call = NoCall
    /\ ret = 0
    /\ HostIdle

Next == play_Tandy_sound

Spec == Init /\ [][Next]_vars

---------------------------------------------------------------------------
(* The cursor on its own: any sequence of cursor calls on any buffer over  *)
(* CursorBytes of at most MaxCursorLen bytes, from any offset <= size.     *)

CursorBytes == {\H01, \H66, \HFF}

SkipArgs == (0..(MaxCursorLen + 1)) \cup {W16 - 1}

InitCursor ==
    /\ \E b \in SeqsUpTo(CursorBytes, MaxCursorLen) :
         \E p \in 0..Len(b) : v = [NewBuf(b) EXCEPT !.pos = p]
    /\ call = NoCall
    /\ ret = 0
    /\ rd = {}
    /\ state = "Idle"
    /\ command = 0
    /\ period = 0
    /\ clock = 0
    /\ port61 = Port61Init
    /\ out = <<>>
    /\ origin = [kind |-> "cursor", cmds |-> <<>>, end |-> <<>>, bytes |-> v.buffer]
    /\ HostIdle

CursorCall(fn, arg, r) ==
    /\ state = "Idle"
    /\ call' = [fn |-> fn, arg |-> arg, pos |-> v.pos]
    /\ v' = r.v
    /\ ret' = r.val
    /\ rd' = r.rd
    /\ UNCHANGED <<state, command, period, clock, port61, out, origin,
                   hostVars>>

CallSkipBytes == \E n \in SkipArgs : CursorCall("skip_bytes", n, skip_bytes(v, n))

CallGetUint8 == CursorCall("get_uint8", 0, get_uint8(v))

CallGetUint16 == CursorCall("get_uint16", 0, get_uint16(v))

CallGetUint32 == CursorCall("get_uint32", 0, get_uint32(v))

NextCursor == CallSkipBytes \/ CallGetUint8 \/ CallGetUint16 \/ CallGetUint32

SpecCursor == InitCursor /\ [][NextCursor]_vars

---------------------------------------------------------------------------
(* The waiter on its own: set_delay_parameters with a pair over DelayNs x  *)
(* DelayDs (all in 1..32767, as parse_args accepts them), then             *)
(* wait_44khz(a), wait_44khz(b) and wait_44khz(a + b) for a, b over        *)
(* WaitCounts.                                                             *)

DelayNs == {1, 3, 255, 256, 257, 3000, 27000, 32767}

DelayDs == {1, 2, 3, 7, 100, 23895, 32767}

WaitCounts == {0, 1, 2, 3, 16384, 32767, 32768, 65535}

InitWait ==
    /\ v = NewBuf(<<>>)
    /\ call = NoCall
    /\ ret = 0
    /\ rd = {}
    /\ state = "Idle"
    /\ command = 0
    /\ period = 0
    /\ clock = 0
    /\ port61 = Port61Init
    /\ out = <<>>
    /\ origin = [kind |-> "waiter", cmds |-> <<>>, end |-> <<>>, bytes |-> <<>>]
    /\ HostIdle

CallSetDelayParameters ==
    /\ ~wt.active
    /\ wt.hist = <<>>
    /\ \E n \in DelayNs, d \in DelayDs :
         /\ nd' = [n |-> n, d |-> d]
         /\ delay' = Statics(set_delay_parameters(n, d, Defined))
    /\ UNCHANGED <<v, call, ret, rd, state, command, period, clock, port61,
                   out, origin, wt, cal, env, pc>>

CallWait44khz ==
    /\ ~wt.active
    /\ delay.adj_dn # 0
    /\ Len(wt.hist) <= 2
    /\ \E s \in IF Len(wt.hist) < 2
                 THEN WaitCounts
                 ELSE {wt.hist[1].samples + wt.hist[2].samples} :
         /\ s < W16
         /\ wt' = WaitEnter(s)
    /\ UNCHANGED <<v, call, ret, rd, state, command, period, clock, port61,
                   out, origin, delay, nd, cal, env, pc>>

NextWait == CallSetDelayParameters \/ CallWait44khz \/ WaitIter \/ WaitReturn

SpecWait == InitWait /\ [][NextWait]_vars

---------------------------------------------------------------------------
(* calibrate_delay: one action per iteration of its do-while loop (a       *)
(* trial: set_delay_parameters, eight wait_44khz(1211) timed against the   *)
(* BIOS tick, the search step, the loop condition) and one for the code    *)
(* after the loop.                                                         *)

TICKS == 4

\* uint16_t n = (TICKS * 6804000ul) / 1008
CalN == (TICKS * 6804000) \div 1008

factors == <<2, 3, 3, 3, 5, 5, 5>>

DMax == \H7FFF

\* The most reads of factors[next_factor++] that are followed.
MaxFactorReads == 8

CalStart ==
    [at |-> "loop", n |-> CalN, d |-> 1, old_d |-> 0, lo |-> 0, hi |-> 0,
     next_factor |-> 0, i |-> 0, waits |-> 0]

\* factors[i]: an index past the table reads memory that is not the table's,
\* an unspecified uint16_t.
OOBValues == {0, 1, W16 - 1}

FactorRead(i) == IF i < Len(factors) THEN {factors[i + 1]} ELSE OOBValues

\* n / factors[next_factor]
Quotients(n, i) == {Div(n, f, ub) : f \in FactorRead(i), ub \in UBOutcomes}

\* delta >= TICKS, for the eight waits under (n, d).  A wait iterates about
\* samples * d / n times, so on a CPU of a fixed speed the trial takes at
\* least TICKS ticks iff d / n >= num / den (env.ticks = [any, num, den]);
\* with `any` the clock may show either.
AtLeastTicks(n, d) ==
    IF env.ticks.any THEN BOOLEAN
    ELSE {d * env.ticks.den >= n * env.ticks.num}

\* wait_44khz(1211) under these statics never returns: no iteration changes
\* err or remain.
WaitHangs(r) == r.step = 0 /\ r.adj_up = 0

\* The search step with the top of the doubling search made fatal.
search_step_TopIsFatal(c, slow, q) ==
    LET c0 == [c EXCEPT !.old_d = c.d, !.waits = c.waits + 8]
    IN  IF c.lo = 0
           THEN IF ~slow
                   THEN IF c.d = DMax
                           THEN [c0 EXCEPT !.at = "exit"]
                           ELSE [c0 EXCEPT
                                   !.d = IF (c.d * 2) % W16 = \H8000
                                            THEN DMax ELSE (c.d * 2) % W16,
                                   !.i = (c.i + 1) % W16]
                   ELSE LET lo == IF c.d = DMax THEN \H4000 ELSE c.d \div 2
                            hi == c.d
                        IN  IF lo = 0
                               THEN [c0 EXCEPT !.lo = lo, !.hi = hi,
                                               !.d = ((hi + lo) % W16) \div 2,
                                               !.at = "exit"]
                               ELSE [c0 EXCEPT !.lo = lo, !.hi = hi,
                                               !.d = ((hi + lo) % W16) \div 2,
                                               !.i = (c.i + 1) % W16]
           ELSE LET lo == IF slow THEN c.lo ELSE c.d
                    hi == IF slow THEN c.d ELSE c.hi
                IN  IF ~(hi < \H8000 /\ lo < \H8000)
                       THEN [c0 EXCEPT !.lo = lo, !.hi = hi, !.at = "assert"]
                       ELSE [c0 EXCEPT !.lo = lo, !.hi = hi,
                                       !.d = ((hi + lo) % W16) \div 2,
                                       !.i = (c.i + 1) % W16]

\* The search step with the binary search trying hi next, not the average.
search_step_NoAverage(c, slow, q) ==
    LET c0 == [c EXCEPT !.old_d = c.d, !.waits = c.waits + 8]
    IN  IF c.lo = 0
           THEN IF ~slow
                   THEN IF c.d = DMax
                           THEN [c0 EXCEPT !.n = q,
                                           !.next_factor = c.next_factor + 1,
                                           !.d = 1]
                           ELSE [c0 EXCEPT
                                   !.d = IF (c.d * 2) % W16 = \H8000
                                            THEN DMax ELSE (c.d * 2) % W16,
                                   !.i = (c.i + 1) % W16]
                   ELSE LET lo == IF c.d = DMax THEN \H4000 ELSE c.d \div 2
                            hi == c.d
                        IN  IF lo = 0
                               THEN [c0 EXCEPT !.lo = lo, !.hi = hi,
                                               !.d = ((hi + lo) % W16) \div 2,
                                               !.at = "exit"]
                               ELSE [c0 EXCEPT !.lo = lo, !.hi = hi,
                                               !.d = ((hi + lo) % W16) \div 2,
                                               !.i = (c.i + 1) % W16]
           ELSE LET lo == IF slow THEN c.lo ELSE c.d
                    hi == IF slow THEN c.d ELSE c.hi
                IN  IF ~(hi < \H8000 /\ lo < \H8000)
                       THEN [c0 EXCEPT !.lo = lo, !.hi = hi, !.at = "assert"]
                       ELSE [c0 EXCEPT !.lo = lo, !.hi = hi,
                                       !.d = hi,
                                       !.i = (c.i + 1) % W16]

\* The search step with the doubling search not held at 0x7fff.
search_step_NoClamp(c, slow, q) ==
    LET c0 == [c EXCEPT !.old_d = c.d, !.waits = c.waits + 8]
    IN  IF c.lo = 0
           THEN IF ~slow
                   THEN IF c.d = DMax
                           THEN [c0 EXCEPT !.n = q,
                                           !.next_factor = c.next_factor + 1,
                                           !.d = 1]
                           ELSE [c0 EXCEPT
                                   !.d = (c.d * 2) % W16,
                                   !.i = (c.i + 1) % W16]
                   ELSE LET lo == IF c.d = DMax THEN \H4000 ELSE c.d \div 2
                            hi == c.d
                        IN  IF lo = 0
                               THEN [c0 EXCEPT !.lo = lo, !.hi = hi,
                                               !.d = ((hi + lo) % W16) \div 2,
                                               !.at = "exit"]
                               ELSE [c0 EXCEPT !.lo = lo, !.hi = hi,
                                               !.d = ((hi + lo) % W16) \div 2,
                                               !.i = (c.i + 1) % W16]
           ELSE LET lo == IF slow THEN c.lo ELSE c.d
                    hi == IF slow THEN c.d ELSE c.hi
                IN  IF ~(hi < \H8000 /\ lo < \H8000)
                       THEN [c0 EXCEPT !.lo = lo, !.hi = hi, !.at = "assert"]
                       ELSE [c0 EXCEPT !.lo = lo, !.hi = hi,
                                       !.d = ((hi + lo) % W16) \div 2,
                                       !.i = (c.i + 1) % W16]

\* Lines 300-343: old_d = d and the search step, on the locals c, for the
\* measurement slow (delta >= TICKS) and the quotient q of n by the next
\* factor.  at = "exit": exit(-1); "assert": the assertion fails.
search_step(c, slow, q) ==
    LET c0 == [c EXCEPT !.old_d = c.d, !.waits = c.waits + 8]
    IN  IF c.lo = 0
           THEN IF ~slow
                   THEN IF c.d = DMax
                           THEN [c0 EXCEPT !.n = q,
                                           !.next_factor = c.next_factor + 1,
                                           !.d = 1]
                           ELSE [c0 EXCEPT
                                   !.d = IF (c.d * 2) % W16 = \H8000
                                            THEN DMax ELSE (c.d * 2) % W16,
                                   !.i = (c.i + 1) % W16]
                   ELSE LET lo == IF c.d = DMax THEN \H4000 ELSE c.d \div 2
                            hi == c.d
                        IN  IF lo = 0
                               THEN [c0 EXCEPT !.lo = lo, !.hi = hi,
                                               !.d = ((hi + lo) % W16) \div 2,
                                               !.at = "exit"]
                               ELSE [c0 EXCEPT !.lo = lo, !.hi = hi,
                                               !.d = ((hi + lo) % W16) \div 2,
                                               !.i = (c.i + 1) % W16]
           ELSE LET lo == IF slow THEN c.lo ELSE c.d
                    hi == IF slow THEN c.d ELSE c.hi
                IN  IF ~(hi < \H8000 /\ lo < \H8000)
                       THEN [c0 EXCEPT !.lo = lo, !.hi = hi, !.at = "assert"]
                       ELSE [c0 EXCEPT !.lo = lo, !.hi = hi,
                                       !.d = ((hi + lo) % W16) \div 2,
                                       !.i = (c.i + 1) % W16]

\* } while (old_d != d);
loop_condition(c) ==
    IF c.at = "loop" /\ c.old_d = c.d THEN [c EXCEPT !.at = "finish"] ELSE c

\* One iteration of the do-while loop.
CalTrial ==
    /\ pc = "calibrating"
    /\ cal.at = "loop"
    /\ \E ub \in UBFor(cal.d) :
         LET r == set_delay_parameters(cal.n, cal.d, ub)
         IN  IF r.trap
                THEN /\ cal' = [cal EXCEPT !.at = "trap"]
                     /\ pc' = "aborted"
                     /\ UNCHANGED <<delay, nd>>
                ELSE /\ delay' = Statics(r)
                     /\ nd' = [n |-> cal.n, d |-> cal.d]
                     /\ IF WaitHangs(r)
                           THEN /\ cal' = [cal EXCEPT !.at = "waiting",
                                                      !.waits = cal.waits + 1]
                                /\ pc' = pc
                           ELSE \E slow \in AtLeastTicks(cal.n, cal.d) :
                                  LET top == cal.lo = 0 /\ ~slow /\ cal.d = DMax
                                  IN  /\ top => cal.next_factor < MaxFactorReads
                                      /\ \E q \in IF top
                                                    THEN Quotients(cal.n, cal.next_factor)
                                                    ELSE {Defined} :
                                           IF q.trap
                                              THEN /\ cal' = [cal EXCEPT !.at = "trap",
                                                                !.waits = cal.waits + 8]
                                                   /\ pc' = "aborted"
                                              ELSE LET c == loop_condition(
                                                              search_step(cal, slow, q.q))
                                                   IN  /\ cal' = c
                                                       /\ pc' = IF c.at = "exit"
                                                                   THEN "exited"
                                                                ELSE IF c.at = "assert"
                                                                   THEN "aborted"
                                                                ELSE pc
    /\ UNCHANGED <<v, call, ret, rd, state, command, period, clock, port61,
                   out, origin, wt, env>>

\* After the loop: d = lo - 1; set_delay_parameters(n, d); return.
CalFinish ==
    /\ pc = "calibrating"
    /\ cal.at = "finish"
    /\ LET d == (cal.lo - 1) % W16
       IN  \E ub \in UBFor(d) :
             LET r == set_delay_parameters(cal.n, d, ub)
             IN  IF r.trap
                    THEN /\ cal' = [cal EXCEPT !.d = d, !.at = "trap"]
                         /\ pc' = "aborted"
                         /\ UNCHANGED <<delay, nd>>
                    ELSE /\ cal' = [cal EXCEPT !.d = d, !.at = "returned"]
                         /\ delay' = Statics(r)
                         /\ nd' = [n |-> cal.n, d |-> d]
                         /\ pc' = "calibrated"
    /\ UNCHANGED <<v, call, ret, rd, state, command, period, clock, port61,
                   out, origin, wt, env>>

---------------------------------------------------------------------------
(* parse_args.  An argument is the sequence of its characters.             *)

IsDigit(ch) == ch \in {"0", "1", "2", "3", "4", "5", "6", "7", "8", "9"}

DigitVal(ch) ==
    CASE ch = "0" -> 0 [] ch = "1" -> 1 [] ch = "2" -> 2 [] ch = "3" -> 3
      [] ch = "4" -> 4 [] ch = "5" -> 5 [] ch = "6" -> 6 [] ch = "7" -> 7
      [] ch = "8" -> 8 [] ch = "9" -> 9

RECURSIVE AtolDigits(_, _)
AtolDigits(s, acc) ==
    IF s = <<>> \/ ~IsDigit(Head(s)) THEN acc
    ELSE AtolDigits(Tail(s), acc * 10 + DigitVal(Head(s)))

\* atol: leading blanks, an optional sign, then digits up to the first other
\* character (the texts used stay within a long).
RECURSIVE atol(_)
atol(s) ==
    IF s = <<>> THEN 0
    ELSE IF Head(s) = " " THEN atol(Tail(s))
    ELSE IF Head(s) = "-" THEN 0 - AtolDigits(Tail(s), 0)
    ELSE IF Head(s) = "+" THEN AtolDigits(Tail(s), 0)
    ELSE AtolDigits(s, 0)

\* strchr(s, ch): the index of the first ch in s, 0 for NULL.
strchr(s, ch) ==
    IF \E k \in 1..Len(s) : s[k] = ch
       THEN CHOOSE k \in 1..Len(s) : s[k] = ch /\ \A j \in 1..(k - 1) : s[j] # ch
       ELSE 0

\* Conversion of a long to unsigned long, as 16-bit halves.
ToULong(x) == U32(x % W16, (x \div W16) % W16)

HelpArgs == { <<"/", "h", "e", "l", "p">>, <<"/", "h">>, <<"/", "?">> }

DelayPrefix == <<"/", "d", "e", "l", "a", "y", ":">>

\* d == 0 || d > 0x7fff || n == 0 || n > 0x7fff, on the low 16 bits only.
OutOfRange_Low16(n, d) ==
    d.lo = 0 \/ d.lo > \H7FFF \/ n.lo = 0 \/ n.lo > \H7FFF

\* d == 0 || d > 0x7fff || n == 0 || n > 0x7fff
OutOfRange(n, d) ==
    \/ (d.lo = 0 /\ d.hi = 0) \/ d.hi > 0 \/ d.lo > \H7FFF
    \/ (n.lo = 0 /\ n.hi = 0) \/ n.hi > 0 \/ n.lo > \H7FFF

\* parse_args from argv[i] on (argv[0] left out, so i counts from 1 as in
\* the code), st = [delay, nd] the statics so far.  idx is the value
\* returned: the index of the file name, or -1.
RECURSIVE parse_args(_, _, _)
parse_args(argv, i, st) ==
    LET fail == [idx |-> -1, delay |-> st.delay, nd |-> st.nd]
    IN  IF i > Len(argv) THEN fail
        ELSE IF argv[i] # <<>> /\ argv[i][1] = "/"
           THEN IF argv[i] \in HelpArgs THEN fail
                ELSE IF Len(argv[i]) >= 7 /\ SubSeq(argv[i], 1, 7) = DelayPrefix
                   THEN LET rest == SubSeq(argv[i], 8, Len(argv[i]))
                            n    == ToULong(atol(rest))
                            next == strchr(rest, ":")
                            d    == ToULong(atol(SubSeq(rest, next + 1, Len(rest))))
                        IN  IF next = 0 THEN fail
                            ELSE IF OutOfRange(n, d) THEN fail
                            ELSE parse_args(argv, i + 1,
                                   [delay |-> Statics(set_delay_parameters(
                                                         n.lo, d.lo, Defined)),
                                    nd |-> [n |-> n.lo, d |-> d.lo]])
                   ELSE fail
           ELSE [idx |-> i, delay |-> st.delay, nd |-> st.nd]

---------------------------------------------------------------------------
(* main.  pc: "start", "open", "header", "load", "loaded", "calibrating",  *)
(* "calibrated", "playing", and where the process ends: "usage" (return    *)
(* -1 after show_help), "open_failed" (return -1), "fail" (goto fail,      *)
(* return 0), "done" (return 0 after playing), "exited" (exit(-1) in       *)
(* calibrate_delay), "aborted" (divide trap, failed assertion).            *)

\* int filename_idx = parse_args(argc, argv); if (filename_idx < 0) ...
MainParseArgs ==
    /\ pc = "start"
    /\ LET r == parse_args(env.argv, 1, [delay |-> delay, nd |-> nd])
       IN  /\ delay' = r.delay
           /\ nd' = r.nd
           /\ pc' = IF r.idx < 0 THEN "usage" ELSE "open"
    /\ UNCHANGED <<v, call, ret, rd, state, command, period, clock, port61,
                   out, origin, wt, cal, env>>

IdentVgm == <<"V", "g", "m", " ">>

Idents == {IdentVgm, <<"V", "G", "M", " ">>}

Versions == {\H14F, \H150, \H151}

\* Streams that between them take every case of the interpreter.
FileStreams ==
    { <<\H4F, \H00, \H50, \H9F, \H62, \H67, \H66, \H00, \H00, \H00, \H00,
        \H00, \H68, \H66>> \o Rep(\H00, 13)
         \o <<\H80, \HA0, \H08, \H00, \H66>>,
      <<\H61, \H00, \H80, \H00>>,
      <<\HA0, \H01, \H00, \H66>> }

\* end_pos - pos, the size of the command stream in the file.
FileSizes == {-1, 0, 1, \HFFFF, \H10000}

\* The command stream of a file: one of FileStreams, or end opcodes to any of
\* FileSizes.
FileData ==
    {[size |-> Len(s), stream |-> s] : s \in FileStreams}
       \cup {[size |-> k, stream |-> <<>>] : k \in FileSizes}

\* What goes wrong with the file, if anything.
FileIo == {"ok", "no_open", "short_header", "no_seek", "no_alloc", "short_read"}

\* A well-formed file with the largest command stream that main loads.
LargestFile ==
    [io |-> "ok", ident |-> IdentVgm, version |-> \H151, ay8910_clock |-> 0,
     size |-> \HFFFE, stream |-> <<>>]

Files ==
    { [io |-> io, ident |-> id, version |-> ver, ay8910_clock |-> clk,
       size |-> data.size, stream |-> data.stream] :
         io \in FileIo, id \in Idents, ver \in Versions, clk \in Clocks,
         data \in FileData }
       \cup {LargestFile}

\* The bytes far_read loads: the stream as far as size goes, then end opcodes.
FileBuffer(f) ==
    [k \in 1..f.size |-> IF k <= Len(f.stream) THEN f.stream[k] ELSE \H66]

\* open() and read() of the header.
MainOpen ==
    /\ pc = "open"
    /\ \E f \in Files :
         /\ env' = [env EXCEPT !.file = f]
         /\ pc' = IF f.io = "no_open" THEN "open_failed"
                  ELSE IF f.io = "short_header" THEN "fail"
                  ELSE "header"
    /\ UNCHANGED <<v, call, ret, rd, state, command, period, clock, port61,
                   out, origin, delay, nd, wt, cal>>

\* Without the version check.
MainCheckHeader_AnyVersion ==
    /\ pc = "header"
    /\ IF env.file.ident # IdentVgm
          THEN pc' = "fail" /\ clock' = clock
          ELSE /\ pc' = "load"
               /\ clock' = IF env.file.version < \H151
                              THEN 0 ELSE env.file.ay8910_clock
    /\ UNCHANGED <<v, call, ret, rd, state, command, period, port61,
                   out, origin, delay, nd, wt, cal, env>>

\* The identifier and version checks; a header older than 1.51 has no
\* ay8910_clock.
MainCheckHeader ==
    /\ pc = "header"
    /\ IF env.file.ident # IdentVgm \/ env.file.version < \H150
          THEN pc' = "fail" /\ clock' = clock
          ELSE /\ pc' = "load"
               /\ clock' = IF env.file.version < \H151
                              THEN 0 ELSE env.file.ay8910_clock
    /\ UNCHANGED <<v, call, ret, rd, state, command, period, port61,
                   out, origin, delay, nd, wt, cal, env>>

\* if (size >= 0xffffUL): size, an off_t, is compared as unsigned long.
SizeRejected(size) == size < 0 \/ size >= \HFFFF

\* lseek, the size limit, _fmalloc, far_read, struct vgm_buf v = {...}.
MainLoad ==
    /\ pc = "load"
    /\ IF \/ env.file.io \in {"no_seek", "no_alloc", "short_read"}
          \/ SizeRejected(env.file.size)
          THEN pc' = "fail" /\ v' = v
          ELSE pc' = "loaded" /\ v' = NewBuf(FileBuffer(env.file))
    /\ UNCHANGED <<call, ret, rd, state, command, period, clock, port61,
                   out, origin, delay, nd, wt, cal, env>>

\* CPUs: the least d for which a trial with n takes TICKS ticks is
\* ceil(n * num / den).
TickModels ==
    { [any |-> FALSE, num |-> 1, den |-> CalN],
      [any |-> FALSE, num |-> 2, den |-> CalN],
      [any |-> FALSE, num |-> 3, den |-> CalN],
      [any |-> FALSE, num |-> 23895, den |-> CalN],
      [any |-> FALSE, num |-> \H7FFF, den |-> CalN],
      [any |-> FALSE, num |-> 2, den |-> 1],
      [any |-> FALSE, num |-> 20000, den |-> 1] }

\* if (adj_dn == 0) calibrate_delay();
MainCalibrate ==
    /\ pc = "loaded"
    /\ delay.adj_dn = 0
    /\ pc' = "calibrating"
    /\ cal' = CalStart
    /\ \E t \in TickModels : env' = [env EXCEPT !.ticks = t]
    /\ UNCHANGED <<v, call, ret, rd, state, command, period, clock, port61,
                   out, origin, delay, nd, wt>>

\* play_Tandy_sound(&v, &header) is called.
MainPlay ==
    /\ \/ pc = "loaded" /\ delay.adj_dn # 0
       \/ pc = "calibrated"
    /\ pc' = "playing"
    /\ state' = "Running"
    /\ period' = 0
    /\ UNCHANGED <<v, call, ret, rd, command, clock, port61, out, origin,
                   delay, nd, wt, cal, env>>

\* play_Tandy_sound has returned: close(fd); return 0.
MainReturn ==
    /\ pc = "playing"
    /\ state \in {"Done", "ParseError"}
    /\ pc' = "done"
    /\ UNCHANGED <<v, call, ret, rd, state, command, period, clock, port61,
                   out, origin, delay, nd, wt, cal, env>>

\* Texts of the numbers of a /delay argument.
NumTexts ==
    { <<>>, <<"0">>, <<"1">>, <<"3", "2", "7", "6", "7">>,
      <<"3", "2", "7", "6", "8">>, <<"6", "5", "5", "3", "7">>, <<"-", "1">>,
      <<"2", "5", "6", "x">> }

DelayArgs ==
    {DelayPrefix \o n \o <<":">> \o d : n \in NumTexts, d \in NumTexts}
       \cup {DelayPrefix \o n : n \in NumTexts}

FileArg == <<"a", ".", "v", "g", "m">>

OtherArgs == HelpArgs \cup { <<"/", "x">>, FileArg, <<>> }

Argvs ==
    {<<>>} \cup {<<a>> : a \in DelayArgs \cup OtherArgs}
       \cup {<<a, FileArg>> : a \in DelayArgs \cup OtherArgs}
       \cup {<<FileArg, DelayPrefix \o n \o <<":">> \o n>> :
                 n \in {<<>>, <<"1">>}}
       \cup {<<DelayPrefix \o <<"1", ":", "1">>, a, FileArg>> : a \in DelayArgs}
       \cup {<<DelayPrefix \o <<"0", ":", "1">>, a, FileArg>> : a \in DelayArgs}

InitMain ==
    /\ v = NewBuf(<<>>)
    /\ call = NoCall
    /\ ret = 0
    /\ rd = {}
    /\ state = "Idle"
    /\ command = 0
    /\ period = 0
    /\ clock = 0
    /\ port61 = Port61Init
    /\ out = <<>>
    /\ origin = [kind |-> "file", cmds |-> <<>>, end |-> <<>>, bytes |-> <<>>]
    /\ delay = StaticDelay
    /\ nd = NoND
    /\ wt = WtIdle(<<>>)
    /\ cal = CalIdle
    /\ \E a \in Argvs : env = [argv |-> a, file |-> NoFile, ticks |-> NoTicks]
    /\ pc = "start"

NextMain ==
    \/ MainParseArgs
    \/ MainOpen
    \/ MainCheckHeader
    \/ MainLoad
    \/ MainCalibrate
    \/ CalTrial
    \/ CalFinish
    \/ MainPlay
    \/ play_Tandy_sound
    \/ MainReturn

SpecMain == InitMain /\ [][NextMain]_vars

\* main is sequential code: whatever step comes next is taken.
FairSpecMain == SpecMain /\ WF_vars(NextMain)

---------------------------------------------------------------------------
(* calibrate_delay on its own, as main calls it for `vgmplay a.vgm` with a *)
(* small valid file, on a machine whose tick count may come out either way *)
(* at every trial.                                                         *)

AnyTicks == [any |-> TRUE, num |-> 0, den |-> 0]

CalFile ==
    [io |-> "ok", ident |-> IdentVgm, version |-> \H151,
     ay8910_clock |-> 1789772, size |-> 1, stream |-> <<>>]

InitCal ==
    /\ v = NewBuf(FileBuffer(CalFile))
    /\ call = NoCall
    /\ ret = 0
    /\ rd = {}
    /\ state = "Idle"
    /\ command = 0
    /\ period = 0
    /\ clock = CalFile.ay8910_clock
    /\ port61 = Port61Init
    /\ out = <<>>
    /\ origin = [kind |-> "file", cmds |-> <<>>, end |-> <<>>, bytes |-> <<>>]
    /\ delay = StaticDelay
    /\ nd = NoND
    /\ wt = WtIdle(<<>>)
    /\ cal = CalStart
    /\ env = [argv |-> <<FileArg>>, file |-> CalFile, ticks |-> AnyTicks]
    /\ pc = "calibrating"

NextCal == CalTrial \/ CalFinish

SpecCal == InitCal /\ [][NextCal]_vars

---------------------------------------------------------------------------
(* Properties.                                                             *)

\* The four volume-off writes to port 0xc0.
VolumeOff ==
    << <<"outp", 192, 159>>, <<"outp", 192, 191>>,
       <<"outp", 192, 223>>, <<"outp", 192, 255>> >>

\* The opcode at the cursor, when there is one.
AtOpcode(op) == state = "Running" /\ v.pos < v.size /\ v.buffer[v.pos + 1] = op

\* C1: on every exit of the interpreter, Done and ParseError alike, the four
\* volume-off writes are issued and then speaker_stop (a write to port 0x61
\* with bits 0-1 clear), so the speaker is gated off when it returns.
C1_SilenceAndSpeakerStopOnEveryExit ==
    state \in {"Done", "ParseError"} =>
        /\ Len(out) >= 5
        /\ SubSeq(out, Len(out) - 4, Len(out) - 1) = VolumeOff
        /\ out[Len(out)] = <<"outp", 97, port61>>
        /\ port61 % 4 = 0

\* C2: get_uint8 at offset >= length returns 0x66 and leaves the cursor as it
\* is; below length it returns buffer[offset] and advances offset by 1.
C2_GetUint8 ==
    [][ call'.fn = "get_uint8" =>
          IF v.pos >= v.size
             THEN ret' = 102 /\ v' = v
             ELSE ret' = v.buffer[v.pos + 1] /\ v' = [v EXCEPT !.pos = v.pos + 1] ]_vars

C2_Witness ==
    /\ call.fn = "get_uint8"
    /\ v.size > 0
    /\ call.pos = v.size
    /\ v.pos = v.size
    /\ ret = 102

\* C3: skip_bytes(N), 0 <= N <= 65535, from any offset <= length leaves
\* offset = min(offset + N, length) and changes nothing else.
C3_SkipBytes ==
    [][ call'.fn = "skip_bytes" =>
          v' = [v EXCEPT !.pos = Min(v.pos + call'.arg, v.size)] ]_vars

C3_Witness ==
    /\ call.fn = "skip_bytes"
    /\ call.arg = 65535
    /\ call.pos < v.size
    /\ v.pos = v.size

\* C4: get_uint16 / get_uint32 with fewer than 2 / 4 bytes left set offset to
\* length and return 0; otherwise they return the little-endian value of the
\* next 2 / 4 bytes and advance by 2 / 4.  No index >= length is read.
C4_GetUint16And32 ==
    [][ /\ call'.fn = "get_uint16" =>
             IF v.size - v.pos < 2
                THEN ret' = 0 /\ v' = [v EXCEPT !.pos = v.size]
                ELSE /\ ret' = v.buffer[v.pos + 1] + 256 * v.buffer[v.pos + 2]
                     /\ v' = [v EXCEPT !.pos = v.pos + 2]
        /\ call'.fn = "get_uint32" =>
             IF v.size - v.pos < 4
                THEN ret' = [lo |-> 0, hi |-> 0] /\ v' = [v EXCEPT !.pos = v.size]
                ELSE /\ ret'.lo = v.buffer[v.pos + 1] + 256 * v.buffer[v.pos + 2]
                     /\ ret'.hi = v.buffer[v.pos + 3] + 256 * v.buffer[v.pos + 4]
                     /\ v' = [v EXCEPT !.pos = v.pos + 4]
        /\ \A i \in rd' : i < v.size ]_vars

C4_Witness ==
    /\ call.fn = "get_uint32"
    /\ v.size - call.pos = 3
    /\ v.pos = v.size
    /\ ret = [lo |-> 0, hi |-> 0]

\* C5: during playback the cursor satisfies offset <= length and the offset
\* never decreases from one step to the next.
C5_OffsetBoundedAndMonotone ==
    [][ v.pos <= v.size /\ v'.pos <= v'.size /\ v'.pos >= v.pos ]_vars

C5_Witness ==
    /\ state = "Running"
    /\ command = 147
    /\ v.size > 1
    /\ v.size < 11
    /\ v.pos = v.size

\* C6: an opcode outside the classification table (0x00-0x2f, 0x60, 0x64,
\* 0x65, 0x69-0x6f, 0x96-0x9f) takes the interpreter from Running straight to
\* ParseError: the cursor is one byte further, nothing else is read, the chip
\* is silenced and nothing is dispatched afterwards.  No other opcode does so
\* (0x67 and 0x68 with a bad marker aside).
UnknownOpcodes ==
    (0..47) \cup {96, 100, 101} \cup (105..111) \cup (150..159)

C6_UnknownOpcodeIsParseError ==
    [][ /\ (\E op \in UnknownOpcodes : AtOpcode(op)) =>
               /\ state' = "ParseError"
               /\ v' = [v EXCEPT !.pos = v.pos + 1]
               /\ rd' = {v.pos}
               /\ out' = out \o VolumeOff
               /\ period' = period
        /\ (state' = "ParseError" /\ command' \notin {103, 104}) =>
               command' \in UnknownOpcodes
        /\ state = "ParseError" => UNCHANGED vars ]_vars

C6_Witness ==
    /\ state = "ParseError"
    /\ command = 153
    /\ v.pos = 1
    /\ v.size > 1
    /\ out = VolumeOff

\* C7: opcode 0x67 or 0x68 followed by a byte that is present and is not 0x66
\* takes the interpreter to ParseError having read the opcode and the marker
\* only: no type, length or trailing byte is read or skipped.
C7_BadMarkerIsParseError ==
    [][ ( /\ AtOpcode(103) \/ AtOpcode(104)
          /\ v.pos + 1 < v.size
          /\ v.buffer[v.pos + 2] # 102 ) =>
            /\ state' = "ParseError"
            /\ v' = [v EXCEPT !.pos = v.pos + 2]
            /\ rd' = {v.pos, v.pos + 1}
            /\ out' = out \o VolumeOff ]_vars

C7_Witness ==
    /\ state = "ParseError"
    /\ command = 103
    /\ v.pos = 2
    /\ v.size > 3
    /\ v.buffer[2] = 1

\* C8: a well-formed command stream cut at any byte position never ends in
\* ParseError (it ends in Done).
C8_TruncationNeverParseError ==
    origin.kind = "stream" => state # "ParseError"

\* C9: for a stream of tone-generator writes (0x50 b) and wait opcodes ended
\* by 0x66, the tone-chip port writes and wait_44khz calls issued are exactly
\* the stream's commands, in order, followed by the volume-off writes.
IsToneOrWait(c) == c[1] \in ({80, 97, 98, 99} \cup (112..127))

ToneWaitStream ==
    /\ origin.kind = "stream"
    /\ origin.end = <<102>>
    /\ ~IsCut(origin)
    /\ \A i \in 1..Len(origin.cmds) : IsToneOrWait(origin.cmds[i])

\* What the format says a tone write or a wait does.
Meaning(c) ==
    IF c[1] = 80 THEN <<"outp", 192, c[2]>>
    ELSE IF c[1] = 97 THEN <<"wait", c[2] + 256 * c[3]>>
    ELSE IF c[1] = 98 THEN <<"wait", 735>>
    ELSE IF c[1] = 99 THEN <<"wait", 882>>
    ELSE <<"wait", (c[1] - 112) + 1>>

Expected(cs) == [i \in 1..Len(cs) |-> Meaning(cs[i])]

IsChipOrWait(e) == e[1] = "wait" \/ (e[1] = "outp" /\ e[2] = 192)

ChipLog == SelectSeq(out, IsChipOrWait)

IsPrefix(a, b) == Len(a) <= Len(b) /\ a = SubSeq(b, 1, Len(a))

C9_OutputsFollowStreamOrder ==
    ToneWaitStream =>
        /\ state \in {"Running", "Done"}
        /\ IsPrefix(ChipLog, Expected(origin.cmds) \o VolumeOff)
        /\ state = "Running" => IsPrefix(ChipLog, Expected(origin.cmds))
        /\ state = "Done" => ChipLog = Expected(origin.cmds) \o VolumeOff

C9_Witness ==
    /\ state = "Done"
    /\ v.buffer = <<80, 159, 97, 0, 2, 102>>
    /\ ChipLog = << <<"outp", 192, 159>>, <<"wait", 512>> >> \o VolumeOff

\* C10: each wait opcode calls wait_44khz exactly once, with lo + 256 * hi for
\* 0x61 (2-byte payload), 735 for 0x62, 882 for 0x63, (opcode & 0x0f) + 1 for
\* 0x70..0x7f (no payload), and consumes exactly its payload; [0x62, 0x62,
\* 0x66] calls wait_44khz(735) twice and ends in Done.
WaitCalls == SelectSeq(out, LAMBDA e : e[1] = "wait")

C10_WaitOpcodes ==
    [][ /\ (AtOpcode(97) /\ v.pos + 2 < v.size) =>
              /\ out' = Append(out, <<"wait", v.buffer[v.pos + 2]
                                              + 256 * v.buffer[v.pos + 3]>>)
              /\ v' = [v EXCEPT !.pos = v.pos + 3]
              /\ state' = "Running"
        /\ AtOpcode(98) =>
              /\ out' = Append(out, <<"wait", 735>>)
              /\ v' = [v EXCEPT !.pos = v.pos + 1]
              /\ state' = "Running"
        /\ AtOpcode(99) =>
              /\ out' = Append(out, <<"wait", 882>>)
              /\ v' = [v EXCEPT !.pos = v.pos + 1]
              /\ state' = "Running"
        /\ \A op \in 112..127 : AtOpcode(op) =>
              /\ out' = Append(out, <<"wait", (op % 16) + 1>>)
              /\ v' = [v EXCEPT !.pos = v.pos + 1]
              /\ state' = "Running"
        /\ (v'.buffer = <<98, 98, 102>> /\ state' # "Running") =>
              /\ state' = "Done"
              /\ SelectSeq(out', LAMBDA e : e[1] = "wait")
                    = << <<"wait", 735>>, <<"wait", 735>> >> ]_vars

C10_Witness ==
    /\ state = "Done"
    /\ v.buffer = <<98, 98, 102>>
    /\ WaitCalls = << <<"wait", 735>>, <<"wait", 735>> >>

\* C11: the stream made of one tone write (0x50), wait (0x61, 0x62, 0x63,
\* 0x70..0x7f) or PSG write (0xa0), its payload, and the end opcode 0x66 ends
\* in Done, never in ParseError or a fault, the command having consumed
\* exactly its opcode and payload bytes when the end opcode is read.
IsRoundTripOpcode(op) == op \in ({80, 97, 98, 99, 160} \cup (112..127))

RoundTripStream ==
    /\ origin.kind = "stream"
    /\ origin.end = <<102>>
    /\ ~IsCut(origin)
    /\ Len(origin.cmds) = 1
    /\ IsRoundTripOpcode(origin.cmds[1][1])

C11_RoundTripEndsInDone ==
    RoundTripStream =>
        /\ state \in {"Running", "Done"}
        /\ state = "Running" => v.pos \in {0, Len(origin.cmds[1])}
        /\ state = "Done" => v.pos = Len(origin.cmds[1]) + 1

\* C12: wait_44khz takes every count of 0..65535: a count above 0 makes the
\* loop iterate at least once, and of two calls under the same delay
\* parameters the one with the larger count iterates at least as often.
C12_WaitAcceptsWholeRange ==
    \A i \in 1..Len(wt.hist) :
        /\ wt.hist[i].samples > 0 => wt.hist[i].iters > 0
        /\ \A j \in 1..Len(wt.hist) :
              wt.hist[i].samples <= wt.hist[j].samples
                 => wt.hist[i].iters <= wt.hist[j].iters

\* C13: under any delay parameters, wait_44khz(a) then wait_44khz(b) iterate
\* in total at most one time more or less than wait_44khz(a + b), for
\* a + b <= 65535.
C13_WaitAdditive ==
    Len(wt.hist) = 3 =>
        LET split == wt.hist[1].iters + wt.hist[2].iters
            whole == wt.hist[3].iters
        IN  split - whole \in {-1, 0, 1}

\* C14: for n, d in 1..32767, set_delay_parameters(n, d) stores
\* adj_dn = 2 * d, adj_up = n mod d, step = n div d (the whole quotient) and
\* initial = adj_dn - adj_up.
C14_DelayParametersExact ==
    (nd.n \in 1..32767 /\ nd.d \in 1..32767) =>
        /\ delay.adj_dn = 2 * nd.d
        /\ delay.adj_up = nd.n % nd.d
        /\ delay.step = nd.n \div nd.d
        /\ delay.initial = delay.adj_dn - delay.adj_up

\* C15: adj_dn is nonzero at every wait_44khz call, those of the calibration
\* trials and those of the interpreter, and main runs calibrate_delay exactly
\* when no /delay argument has set adj_dn.
PastCalibrationChoice ==
    pc \in {"calibrating", "calibrated", "playing", "done", "exited", "aborted"}

C15_NoWaitWithUnsetCalibration ==
    /\ (pc = "calibrating" /\ cal.waits > 0) => delay.adj_dn # 0
    /\ (pc = "playing" /\ WaitCalls # <<>>) => delay.adj_dn # 0
    /\ PastCalibrationChoice =>
          (cal.at # "idle" <=>
              parse_args(env.argv, 1, [delay |-> StaticDelay, nd |-> NoND])
                 .delay.adj_dn = 0)

\* C16: when the measurement is monotone in d, calibrate_delay returns with
\* the delay parameters set from (n, D*), D* the smallest d whose trial takes
\* at least TICKS ticks.
DStar(n) == (n * env.ticks.num + env.ticks.den - 1) \div env.ticks.den

C16_CalibrationFindsThreshold ==
    (cal.at = "returned" /\ ~env.ticks.any) =>
        /\ cal.d = DStar(cal.n)
        /\ nd = [n |-> cal.n, d |-> DStar(cal.n)]

\* The trial about to run is of the doubling search at its top, d = 0x7fff,
\* and measures less than TICKS ticks.
TopBelowTicks ==
    /\ pc = "calibrating"
    /\ cal.at = "loop"
    /\ cal.lo = 0
    /\ cal.d = DMax
    /\ ~WaitHangs(set_delay_parameters(cal.n, cal.d, Defined))
    /\ AtLeastTicks(cal.n, cal.d) = {FALSE}

\* C17 (as stated): when the doubling search reaches d = 0x7fff and the trial
\* is still below TICKS, the process exits, with the interpreter not started
\* and no port written.
C17_TopOfSearchIsFatal ==
    [][ TopBelowTicks => (pc' = "exited" /\ state' = "Idle" /\ out' = <<>>) ]_vars

\* C17 (amended): when the doubling search reaches d = 0x7fff and the trial is
\* still below TICKS, calibrate_delay does not exit: it restarts the doubling
\* search at d = 1, with n divided by the next entry of factors for each of
\* the first seven restarts.  calibrate_delay calls exit(-1) exactly when the
\* first trial to reach TICKS is the one with d = 1, and then the interpreter
\* has not been started and no port has been written.
C17_TopOfSearchRestarts ==
    [][ /\ TopBelowTicks =>
            /\ pc' # "exited"
            /\ cal.next_factor < Len(factors) =>
                  /\ pc' = "calibrating"
                  /\ cal' = [cal EXCEPT !.old_d = DMax, !.d = 1,
                                        !.n = cal.n \div factors[cal.next_factor + 1],
                                        !.next_factor = cal.next_factor + 1,
                                        !.waits = cal.waits + 8]
        /\ pc' = "exited" <=>
              /\ pc = "calibrating"
              /\ cal.at = "loop"
              /\ cal.lo = 0
              /\ cal.d = 1
              /\ ~WaitHangs(set_delay_parameters(cal.n, cal.d, Defined))
              /\ AtLeastTicks(cal.n, cal.d) = {TRUE}
        /\ pc' = "exited" => (state' = "Idle" /\ out' = <<>>) ]_vars

C17_Witness ==
    /\ pc = "calibrating"
    /\ cal.at = "loop"
    /\ cal.next_factor = 1
    /\ cal.n = CalN \div 2
    /\ cal.d = 1
    /\ cal.old_d = DMax

\* What the texts of NumTexts say, read as decimal numbers up to the first
\* character that is not part of one.
TextValue(t) ==
    CASE t = <<>> -> 0
      [] t = <<"0">> -> 0
      [] t = <<"1">> -> 1
      [] t = <<"3", "2", "7", "6", "7">> -> 32767
      [] t = <<"3", "2", "7", "6", "8">> -> 32768
      [] t = <<"6", "5", "5", "3", "7">> -> 65537
      [] t = <<"-", "1">> -> -1
      [] t = <<"2", "5", "6", "x">> -> 256

IsDelayArg(a) == Len(a) >= 7 /\ SubSeq(a, 1, 7) = DelayPrefix

\* The (n, d) pairs of a /delay argument with both numbers in 1..32767 (one
\* pair, or none).
InRangePairs(a) ==
    { [n |-> TextValue(n), d |-> TextValue(d)] :
        <<n, d>> \in { p \in NumTexts \X NumTexts :
                        /\ a = DelayPrefix \o p[1] \o <<":">> \o p[2]
                        /\ TextValue(p[1]) \in 1..32767
                        /\ TextValue(p[2]) \in 1..32767 } }

\* The statics and port/interpreter state of a process that has neither
\* calibrated nor played.
NothingRun == cal = CalIdle /\ state = "Idle" /\ out = <<>>

\* What the claim says of the /delay argument argv[i], once parse_args has run.
DelayArgRule(i) ==
    IF InRangePairs(env.argv[i]) # {}
       THEN /\ cal = CalIdle
            /\ (pc # "usage" /\ ~(i < Len(env.argv) /\ IsDelayArg(env.argv[i + 1])))
                  => \E p \in InRangePairs(env.argv[i]) :
                        /\ nd = p
                        /\ delay = Statics(set_delay_parameters(p.n, p.d, Defined))
       ELSE pc = "usage" /\ NothingRun

\* C18 (as stated): a /delay:n:d argument is accepted iff n and d are in
\* 1..32767; accepted, the delay parameters are set from (n, d) and
\* calibrate_delay is never run; otherwise parse_args fails with the usage
\* error and nothing is calibrated, played or written to a port.
C18_DelayOverride ==
    pc # "start" =>
        \A i \in 1..Len(env.argv) : IsDelayArg(env.argv[i]) => DelayArgRule(i)

\* parse_args comes to argv[i]: every argument before it is an accepted /delay.
Reached(i) == \A j \in 1..(i - 1) : InRangePairs(env.argv[j]) # {}

\* C18 (amended): the same, of the /delay arguments parse_args comes to;
\* arguments after the file name or after a rejected one are not examined.
C18_ReachedDelayOverride ==
    pc # "start" =>
        \A i \in 1..Len(env.argv) :
            (IsDelayArg(env.argv[i]) /\ Reached(i)) => DelayArgRule(i)

C18_Witness ==
    /\ pc = "playing"
    /\ env.argv = <<DelayPrefix \o <<"1", ":", "1">>,
                    DelayPrefix \o <<"3", "2", "7", "6", "7", ":", "1">>, FileArg>>
    /\ nd = [n |-> 32767, d |-> 1]
    /\ delay.adj_dn = 2
    /\ cal = CalIdle

\* The header has been read and the file is not in the format played: the
\* identifier is not "Vgm ", the version is below 1.50, or the command
\* stream is larger than 65535 bytes.
BadFormat ==
    /\ env.file.io \notin {"none", "no_open", "short_header"}
    /\ \/ env.file.ident # IdentVgm
       \/ env.file.version < \H150
       \/ env.file.size > \HFFFF

\* C19: on a format error (identifier, version, oversized stream) main comes
\* to its failure exit, and calibrate_delay is never run, the interpreter is
\* never called and no port is written.
C19_FormatErrorsStopTheRun ==
    /\ [](BadFormat => (NothingRun /\ pc \in {"header", "load", "fail"}))
    /\ BadFormat ~> (pc = "fail")

C19_Witness ==
    /\ pc = "fail"
    /\ env.file.io = "ok"
    /\ env.file.ident = IdentVgm
    /\ env.file.version = \H14F
    /\ env.file.size = 1
    /\ NothingRun

\* C20: a command stream is accepted iff it is at most 65535 bytes long: with
\* a valid header and nothing failing in the load, a stream of 0..65535 bytes
\* reaches the interpreter and a larger one is rejected before it.
C20_SizeBoundary ==
    ( /\ env.file.io = "ok"
      /\ env.file.ident = IdentVgm
      /\ env.file.version >= \H150 ) =>
        /\ env.file.size \in 0..65535 => pc # "fail"
        /\ env.file.size > 65535 =>
              (state = "Idle" /\ pc \in {"header", "load", "fail"})

\* An AY8910 write (0xa0) is at the cursor with both payload bytes present:
\* AyReg is its register byte, AyVal its value byte.
AtAy8910 == AtOpcode(160) /\ v.pos + 2 < v.size

AyReg == v.buffer[v.pos + 2]

AyVal == v.buffer[v.pos + 3]

\* C21: the interpreter never divides by zero and never calls
\* pc_speaker_start with frequency 0: at each call
\* pc_speaker_start(clock / (16 * period)) the period is nonzero and so is the
\* argument, for every buffer and every clock main accepts (0 included).
C21_NoDivisionByZero ==
    [][ (state = "Running" /\ Cmd = 160) =>
          LET v1 == get_uint8(Fetch.v).val
              v2 == get_uint8(get_uint8(Fetch.v).v).val
              np == Ay8910Period(period, v1, v2)
          IN  Ay8910Starts(period, v1, v2) =>
                 /\ np # 0
                 /\ (clock \div (16 * np)) % 65536 # 0
                 /\ state' # "Fault" ]_vars

\* What a step appended to out.
NewOut == SubSeq(out', Len(out) + 1, Len(out'))

\* The timer value for a frequency: 0xfffe & (1193180 / freq).
TimerFor(freq) ==
    LET q == (1193180 \div freq) % 65536 IN q - (q % 2)

\* C22: the speaker is started iff an AY8910 write to register 7 has bit 0 of
\* its value set while the period is nonzero, and then at frequency
\* clock / (16 * period); writes to registers 0 and 1 only update the period
\* and never start the speaker.
C22_SpeakerStartOnlyByRegister7 ==
    [][ state = "Running" =>
          LET due == AtAy8910 /\ AyReg = 7 /\ AyVal % 2 = 1 /\ period # 0
              f   == (clock \div (16 * period)) % 65536
          IN  /\ due <=> (NewOut # <<>> /\ NewOut[1] = <<"outp", 67, 182>>)
              /\ (due /\ f # 0) =>
                    NewOut = << <<"outp", 67, 182>>,
                                <<"outp", 66, TimerFor(f) % 256>>,
                                <<"outp", 66, TimerFor(f) \div 256>>,
                                <<"outp", 97, port61 - (port61 % 4) + 3>> >>
              /\ (AtAy8910 /\ AyReg \in {0, 1}) => NewOut = <<>> ]_vars

\* C23: period starts at 0 and never exceeds 0x0fff; a register-0 write
\* replaces its low 8 bits with the value byte and keeps the high bits, a
\* register-1 write replaces bits 8..11 with the low nibble of the value byte
\* and keeps the low 8 bits; no opcode other than 0xa0 changes period.
C23_PeriodIs12Bits ==
    /\ period = 0
    /\ [][ /\ period <= 4095
           /\ period' <= 4095
           /\ (AtAy8910 /\ AyReg = 0) =>
                 period' = (period \div 256) * 256 + AyVal
           /\ (AtAy8910 /\ AyReg = 1) =>
                 period' = (AyVal % 16) * 256 + (period % 256)
           /\ command' # 160 => period' = period ]_vars

C23_Witness ==
    /\ command = 160
    /\ period = 272
    /\ v.buffer = <<160, 0, 16, 160, 1, 1, 102>>
    /\ v.pos = 6

\* C24: an AY8910 write to register 8 with bit 0 of the value clear issues
\* speaker_stop; a write to a register other than 0, 1, 7 and 8, to register 8
\* with bit 0 set or to register 7 with bit 0 clear is ignored: no port write,
\* period unchanged.  Either way the two payload bytes are consumed and the
\* interpreter stays in Running.
C24_StopAndIgnoredRegisters ==
    [][ AtAy8910 =>
          /\ (AyReg = 8 /\ AyVal % 2 = 0) =>
                /\ out' = Append(out, <<"outp", 97, port61 - (port61 % 4)>>)
                /\ port61' = port61 - (port61 % 4)
                /\ period' = period
                /\ v' = [v EXCEPT !.pos = v.pos + 3]
                /\ state' = "Running"
          /\ ( \/ AyReg \notin {0, 1, 7, 8}
               \/ (AyReg = 8 /\ AyVal % 2 = 1)
               \/ (AyReg = 7 /\ AyVal % 2 = 0) ) =>
                /\ out' = out
                /\ port61' = port61
                /\ period' = period
                /\ v' = [v EXCEPT !.pos = v.pos + 3]
                /\ state' = "Running" ]_vars

C24_Witness ==
    /\ state = "Running"
    /\ command = 160
    /\ v.buffer = <<160, 8, 1, 102>>
    /\ v.pos = 3
    /\ out = <<>>
    /\ period = 0

\* A data block (0x67) is at the cursor with its marker 0x66, its type byte
\* and its four length bytes present.  The declared length is
\* DataLenLo + 65536 * DataLenHi.
AtDataBlock ==
    /\ AtOpcode(103)
    /\ v.pos + 6 < v.size
    /\ v.buffer[v.pos + 2] = 102

DataLenLo == v.buffer[v.pos + 4] + 256 * v.buffer[v.pos + 5]

DataLenHi == v.buffer[v.pos + 6] + 256 * v.buffer[v.pos + 7]

\* C25: a data block 0x67 0x66 type len32 at offset p leaves the cursor at
\* min(p + 7 + len, length) for every 32-bit len; a length of 65536 or more
\* is beyond every buffer, so the cursor is then at the end of the buffer.
C25_DataBlockSkipsDeclaredLength ==
    [][ AtDataBlock =>
          /\ v'.pos = IF DataLenHi > 0 THEN v.size
                      ELSE Min(v.pos + 7 + DataLenLo, v.size)
          /\ state' = "Running" ]_vars

\* The payload lengths the format gives the reserved and unsupported opcodes.
ReservedLen(op) ==
    IF op \in (48..63) \cup {79, 148} THEN 1
    ELSE IF op \in (64..78) \cup (81..95) \cup (161..191) THEN 2
    ELSE IF op \in (192..223) \cup {225} THEN 3
    ELSE IF op \in {224} \cup (226..255) \cup {144, 145, 149} THEN 4
    ELSE IF op = 146 THEN 5
    ELSE IF op = 147 THEN 10
    ELSE 0

ReservedOpcodes ==
    (48..63) \cup (64..79) \cup (81..95) \cup (128..149) \cup (161..255)

\* C26: a reserved or unsupported opcode advances the cursor by 1 plus its
\* payload length (1 for 0x30-0x3f, 0x4f, 0x94; 2 for 0x40-0x4e, 0x51-0x5f,
\* 0xa1-0xbf; 3 for 0xc0-0xdf, 0xe1; 4 for 0xe0, 0xe2-0xff, 0x90, 0x91, 0x95;
\* 5 for 0x92; 10 for 0x93; 0 for 0x80-0x8f), clamped to the buffer length,
\* writes no port, calls no wait, leaves period alone and stays in Running.
C26_ReservedOpcodesSkipped ==
    [][ \A op \in ReservedOpcodes :
          AtOpcode(op) =>
             /\ v' = [v EXCEPT !.pos = Min(v.pos + 1 + ReservedLen(op), v.size)]
             /\ out' = out
             /\ port61' = port61
             /\ period' = period
             /\ state' = "Running" ]_vars

C26_Witness ==
    /\ state = "Running"
    /\ command = 225
    /\ v.size = 13
    /\ v.pos = 4
    /\ out = <<>>

\* The command at the cursor is a tone write or an AY8910 write whose payload
\* is not all within the buffer.
PayloadCut ==
    /\ state = "Running"
    /\ v.pos < v.size
    /\ \/ v.buffer[v.pos + 1] = 80 /\ v.pos + 1 >= v.size
       \/ v.buffer[v.pos + 1] = 160 /\ v.pos + 2 >= v.size

\* C27: a read at or past the end of the buffer is seen as the end of the
\* stream, never as data: an opcode read there ends the run in Done, and a
\* command whose payload is cut off writes nothing to the tone chip and does
\* not start the speaker; the buffer [0x50] writes nothing to port 0xc0 but
\* the volume-off sequence.
C27_PastEndReadIsEndOfStream ==
    [][ /\ (state = "Running" /\ v.pos >= v.size) =>
              /\ state' = "Done"
              /\ NewOut = VolumeOff \o << <<"outp", 97, port61'>> >>
        /\ PayloadCut =>
              \A i \in 1..Len(NewOut) : NewOut[i][2] \notin {192, 67, 66}
        /\ v.buffer = <<80>> =>
              IsPrefix(SelectSeq(out', IsChipOrWait), VolumeOff) ]_vars

\* C28: wait_44khz terminates for every count and every parameter pair
\* (n, d) of 1..32767: each iteration of its loop brings the end nearer, by
\* lowering remain, or by lowering err with remain as it was (err cannot
\* fall for ever: when it wraps, remain is lowered).
C28_WaitTerminates ==
    [][ (wt.active /\ wt.remain > 0) =>
          \/ wt'.remain < wt.remain
          \/ (wt'.remain = wt.remain /\ wt'.err < wt.err) ]_vars

\* C29: the interpreter terminates: every dispatch in Running moves the
\* cursor forward by at least one byte or leaves Running for Done or
\* ParseError (so there are at most length + 1 dispatches), and nothing is
\* dispatched after Done or ParseError.
C29_InterpreterTerminates ==
    [][ /\ state = "Running" =>
              \/ (state' = "Running" /\ v'.pos > v.pos /\ v'.pos <= v.size)
              \/ state' \in {"Done", "ParseError"}
        /\ state \in {"Done", "ParseError"} => UNCHANGED vars ]_vars

\* C30: every set_delay_parameters(n, d) call of calibrate_delay, the one
\* after the search with d = lo - 1 included, has d >= 1, and adj_dn is
\* nonzero when calibrate_delay returns.  (cal.d is the d of the call to
\* come when a trial is due, and the d of the last call once calibrate_delay
\* has returned or a division has trapped.)
C30_CalibrationDenominatorNonzero ==
    /\ cal.at \in {"loop", "waiting", "returned", "trap"} => cal.d >= 1
    /\ cal.at = "returned" => delay.adj_dn # 0

\* C31: the index into the seven-entry factors table stays in bounds: each
\* n /= factors[next_factor++] reads an index of 0..6 (so next_factor never
\* passes 7), and n stays >= 1 at every trial, whatever the measurements are.
C31_FactorIndexInBounds ==
    /\ cal.next_factor <= 7
    /\ cal.at \in {"loop", "waiting", "finish", "returned"} => cal.n >= 1

\* A trial of the binary-search phase is due.
BinaryTrialDue == pc = "calibrating" /\ cal.at = "loop" /\ cal.lo # 0

\* The least j with 2^j >= x, for x in 1..0x8000.
CeilLog2(x) == CHOOSE j \in 0..15 : 2^j >= x /\ (j = 0 \/ 2^(j - 1) < x)

\* The trials of the binary-search phase so far.  i counts the loop
\* iterations but those that restart the doubling search; a round of the
\* doubling search that restarts adds 15 to i, and the round that ends at
\* d = 2^j (or 0x7fff, j = 15) adds j + 1; hi stays above 2^(j - 1).
BinaryTrials == cal.i - (15 * cal.next_factor + CeilLog2(cal.hi) + 1)

\* C32: once the doubling search has measured at least TICKS ticks at some
\* d >= 2, the search ends whatever the later measurements are: every trial
\* of the binary search either ends the loop (old_d = d) or at least halves
\* hi - lo, which starts at 16384 or less, so the loop ends within 16 trials
\* of the binary search.
C32_CalibrationSearchEnds ==
    [][ BinaryTrialDue =>
          /\ cal.hi - cal.lo <= 16384
          /\ BinaryTrials \in 0..15
          /\ \/ cal'.at = "finish" /\ pc' = "calibrating"
             \/ /\ cal'.at = "loop"
                /\ cal'.hi - cal'.lo < cal.hi - cal.lo
                /\ 2 * (cal'.hi - cal'.lo) <= (cal.hi - cal.lo) + 1 ]_vars

C32_Witness ==
    /\ pc = "calibrating"
    /\ cal.at = "finish"
    /\ cal.lo = 23894
    /\ cal.hi = 23895
    /\ cal.i = 30

ExtraIn(a, b) == Cardinality({j \in a..b : wt.extra[j]})

\* C34: with the parameters set from (n, d) of 1..32767, at every iteration
\* of the wait loop err is within 0..adj_dn, the extra decrement of remain
\* happens exactly when err - 2 * adj_up goes below zero (and err is then
\* raised by adj_dn), and every d consecutive iterations hold exactly
\* adj_up = n mod d extra decrements.
C34_ErrorAccumulator ==
    /\ [](wt.active =>
            /\ wt.err \in 0..delay.adj_dn
            /\ Len(wt.extra) >= nd.d =>
                  ExtraIn(Len(wt.extra) - nd.d + 1, Len(wt.extra)) = nd.n % nd.d)
    /\ [][ (wt.active /\ wt'.active /\ wt'.iters = wt.iters + 1) =>
             LET wraps == wt.err < 2 * (nd.n % nd.d)
             IN  /\ wt'.extra[Len(wt'.extra)] <=> wraps
                 /\ wt'.err = wt.err - 2 * (nd.n % nd.d)
                                + (IF wraps THEN 2 * nd.d ELSE 0)
                 /\ wt'.remain = wt.remain - delay.step
                                   - (IF wraps THEN 1 ELSE 0) ]_vars

C34_Witness ==
    /\ wt.active
    /\ nd = [n |-> 257, d |-> 100]
    /\ wt.iters = 250
    /\ ExtraIn(151, 250) = 57


=============================================================================
